---- MODULE Spec2Model ----
(***************************************************************************)
(* State-machine model of the GUI worker of src/Control.py:                *)
(* run_measurement_task (lines 385-518) with its helpers send_command and  *)
(* query_device, the serial transport it drives, the log queue it fills    *)
(* and the stop event that MagnaPowerApp.stop_test sets; of the Control    *)
(* Surface MagnaPowerApp (start_test, stop_test, check_log_queue,          *)
(* on_task_complete); and of the three stand-alone scripts of the file.    *)
(*                                                                         *)
(* Time is counted in clock ticks.  A serial round trip that gets a reply  *)
(* takes ReplyTicks ticks, a readline that times out takes `timeout` ticks *)
(* and returns the empty line (pySerial does not raise on a read timeout), *)
(* a wait that runs to its end takes its duration.                         *)
(***************************************************************************)
EXTENDS Integers, Sequences, FiniteSets, TLC

(* ---------------------------- bounds ----------------------------------- *)
MaxMeasurements == 2
MaxInterval == 1
StartDelay == 1
ReplyTicks == 1
MaxRuns == 2
MaxGuiEvents == 1

(* ------------------------ program constants ---------------------------- *)
timeout == 5
StabilizationWait == 20

None == "None"

(* The reply lines the instrument can send, after decode().strip(). *)
VoltReplies == {"5.012", "ERR"}
CurrReplies == {"1.998", "ERR"}
IdnReplies == {"Magna-Power TS"}
EmptyLine == ""

(* float(): the replies that parse, and the value they parse to (in 1/1000). *)
float_ok_always(s) == TRUE
float_ok(s) == s \in {"5.012", "1.998"}

float_value(s) == CASE s = "5.012" -> 5012
                    [] s = "1.998" -> 1998
                    [] OTHER -> 0

(* Lines 425-429: the configuration commands, in program order. *)
ConfigCommands_mutant == <<"CONF:SETPT 0", "CURR 0", "OUTP:START", "VOLT <limit>", "CURR <target>">>
ConfigCommands == <<"CONF:SETPT 0", "CURR 0", "VOLT <limit>", "OUTP:START", "CURR <target>">>

(* Lines 509-510: the shutdown commands, in program order. *)
ShutdownCommands == <<"CURR 0", "OUTP:STOP">>

Queries == {"*IDN?", "MEAS:VOLT?", "MEAS:CURR?"}
MeasQueries == {"MEAS:VOLT?", "MEAS:CURR?"}

(* Line 448: elapsed_time_seconds = time.time() - test_start_time *)
elapsed_time_seconds_mutant(t, t0) == t0
elapsed_time_seconds(t, t0) == t - t0

(* Line 449: elapsed_time_hours = elapsed_time_seconds / 3600.0, in
   millionths of an hour. *)
elapsed_time_hours(seconds) == (seconds * 1000000) \div 3600

(* Line 442: for i in range(config['measurements']) has a next item. *)
range_has_next(k, n) == k < n

(* Line 474: if i < config['measurements'] - 1 *)
needs_interval_wait(k, n) == k < n - 1

(* Lines 412, 438, 476: the value stop_event.wait(timeout) returns, given the
   flag at the moment the wait ends. *)
wait_result_mutant(flag) == FALSE
wait_result(flag) == flag

(* Line 444: stop_event.is_set() *)
is_set_mutant(flag) == FALSE
is_set(flag) == flag

(* Line 507: if conn and conn.is_open *)
conn_is_open_negated(c) == c # "open"
conn_is_open(c) == c = "open"

(* Lines 496-503: the except clause an exception raised in the try body reaches. *)
Handler_swallow(exc) == CASE exc = "SerialException" -> "loop_top"
                          [] exc = "InterruptedException" -> "except_interrupted"
                          [] OTHER -> "except_exception"
Handler(exc) == CASE exc = "SerialException" -> "except_serial"
                  [] exc = "InterruptedException" -> "except_interrupted"
                  [] OTHER -> "except_exception"

(* Lines 512-514: where the finally block goes after a shutdown command raised. *)
after_shutdown_error_mutant == "finish"
after_shutdown_error == "close"

(* Lines 517-518: the last two puts of the run. *)
FinishMessages == <<"Program finished.", None>>

(* int() and float() on the texts of the entry widgets (lines 651-656). *)
IntTexts == <<"0", "1", "2", "3", "4", "5", "6", "7", "8", "9">>
IntText(n) == IntTexts[n + 1]
int_ok(s) == (\E n \in 0..9 : IntText(n) = s) \/ s = "19200"
int_(s) == CHOOSE n \in 0..9 : IntText(n) = s
float_text_ok(s) == int_ok(s) \/ s \in {"9.0", "5.0", "2.5"}

Configs == [measurements : 0..MaxMeasurements,
            interval : {0, MaxInterval},
            start_delay : {StartDelay}]

(* Lines 549-559: the texts of the entry widgets.  FormOf is a well-formed
   form typed for a configuration, DefaultForm the texts the entries hold
   after construction, MalformedForms the forms with one malformed field. *)
FormOf(c) == [baud |-> "19200", start_delay |-> IntText(c.start_delay),
              volt |-> "9.0", curr |-> "5.0", interval |-> IntText(c.interval),
              total |-> IntText(c.measurements), file |-> "out.xlsx"]
DefaultForm == [baud |-> "19200", start_delay |-> "5", volt |-> "9.0", curr |-> "5.0",
                interval |-> "5", total |-> "5",
                file |-> "C:\\Users\\kevin\\OneDrive\\Desktop\\saratoga energy\\Magna Power\\magnatest1.xlsx"]
MalformedForms ==
  { [DefaultForm EXCEPT !.baud = "abc"], [DefaultForm EXCEPT !.start_delay = ""],
    [DefaultForm EXCEPT !.volt = "abc"], [DefaultForm EXCEPT !.curr = ""],
    [DefaultForm EXCEPT !.interval = "2.5"], [DefaultForm EXCEPT !.total = "abc"],
    [DefaultForm EXCEPT !.file = ""] }
GuiForms ==
  { FormOf(c) : c \in {k \in Configs : k.measurements = MaxMeasurements /\ k.interval = 0} }
  \cup {DefaultForm}
  \cup MalformedForms

(* Lines 648-665: the validation of start_test. *)
form_valid_mutant(f) ==
  /\ int_ok(f.baud) /\ int_ok(f.start_delay) /\ float_text_ok(f.volt)
  /\ float_text_ok(f.curr) /\ int_ok(f.interval) /\ int_ok(f.total)
form_valid(f) ==
  /\ int_ok(f.baud) /\ int_ok(f.start_delay) /\ float_text_ok(f.volt)
  /\ float_text_ok(f.curr) /\ int_ok(f.interval) /\ int_ok(f.total)
  /\ f.file # ""

(* Lines 649-658: the config dictionary built from the form. *)
ConfigOf(f) == [measurements |-> int_(f.total), interval |-> int_(f.interval),
                start_delay |-> int_(f.start_delay)]

VARIABLES
  config,            \* the RunConfig handed to the worker
  stop_event,        \* threading.Event flag shared with the GUI
  pc,                \* position of the worker in run_measurement_task
  conn,              \* "none" (conn = None), "open", "closed"
  wire,              \* every transport operation performed, in order
  log_queue,         \* everything put on log_queue, in order
  puts,              \* the puts the worker makes before its next statement
  now,               \* time.time()
  test_start_time,   \* line 422
  cfg_i,             \* index of the next configuration command
  i,                 \* loop variable of the sampling loop
  elapsed_time,      \* elapsed_time_seconds of the current iteration
  voltage_response,
  current_response,
  elapsed_times,
  voltages,
  currents,
  exported,          \* rows written by df.to_excel, <<>> while it was not called
  stop_pc,           \* history: pc when the stop event was set
  stop_at,           \* history: Len(wire) when the stop event was set
  observed_at,       \* history: Len(wire) when the worker saw the stop event
  finally_at,        \* history: Len(wire) when the finally block was entered
  stop_samples,      \* history: Len(elapsed_times) when the stop event was set
  form,              \* texts of the entry widgets read by the last start_test
  start_button,      \* "normal" or "disabled"
  stop_button,       \* "normal" or "disabled"
  worker_thread,     \* self.worker_thread: "none" or "thread"
  has_queue,         \* self.log_queue is not None
  q_head,            \* number of entries taken from the queue by get_nowait
  log_area,          \* entries shown in the log area
  poll,              \* check_log_queue: "none", "polling" (scheduled), "running" (in its
                     \* while loop), "empty" (in except queue.Empty)
  runs,              \* number of workers started
  completions,       \* number of on_task_complete calls since the last start
  stop_was_set,      \* history: stop_event.is_set() when the last start_test cleared it
  stopping,          \* stop_test is between its is_alive test and stop_event.set()
  script,            \* state of a stand-alone script of the file
  event_budget       \* outside events still to come, NoLimit when uncapped

vars == <<config, stop_event, pc, conn, wire, log_queue, puts, now, test_start_time,
          cfg_i, i, elapsed_time, voltage_response, current_response,
          elapsed_times, voltages, currents, exported,
          stop_pc, stop_at, observed_at, finally_at, stop_samples,
          form, start_button, stop_button, worker_thread, has_queue, q_head,
          log_area, poll, runs, completions, stop_was_set, stopping, script,
          event_budget>>

history == <<stop_pc, stop_at, finally_at, stop_samples>>
gui == <<form, start_button, stop_button, worker_thread, has_queue, q_head,
         log_area, poll, runs, completions, stop_was_set, stopping>>

(* The scripts do not run while the GUI program runs. *)
NoScript == [variant |-> "none", pc |-> "none", at |-> 0, conn |-> "none",
             wire |-> <<>>, voltage_response |-> "", current_response |-> "",
             stored |-> 0, sd |-> 0]
samples == <<elapsed_times, voltages, currents>>
loopvars == <<cfg_i, i, elapsed_time, voltage_response, current_response>>

Op(o, a, r) == [op |-> o, arg |-> a, res |-> r]

(* Events from outside the program: a press of the Stop button, and the
   faults of the environment (a raising open, write, readline or export, a
   readline that times out or returns bytes that do not decode, a reply that
   is not a number).  The number of such events in a session is capped by
   event_budget, unless that is NoLimit. *)
NoLimit == -1
WellFormedReplies == IdnReplies \cup {"5.012", "1.998"}
Charge(event) ==
  /\ event => event_budget # 0
  /\ event_budget' = IF event /\ event_budget > 0 THEN event_budget - 1 ELSE event_budget

(* State when threading.Thread(target=run_measurement_task).start() returns:
   start_test has just cleared the stop event (line 672). *)
Init ==
  /\ config \in Configs
  /\ stop_event = FALSE
  /\ pc = "connect"
  /\ conn = "none"
  /\ wire = <<>>
  /\ log_queue = <<>>
  /\ puts = <<>>
  /\ now = 0
  /\ test_start_time = -1
  /\ cfg_i = 1
  /\ i = 0
  /\ elapsed_time = 0
  /\ voltage_response = EmptyLine
  /\ current_response = EmptyLine
  /\ elapsed_times = <<>>
  /\ voltages = <<>>
  /\ currents = <<>>
  /\ exported = <<>>
  /\ stop_pc = "none"
  /\ stop_at = -1
  /\ observed_at = -1
  /\ finally_at = -1
  /\ stop_samples = -1
  /\ form = FormOf(config)
  /\ start_button = "disabled"
  /\ stop_button = "normal"
  /\ worker_thread = "thread"
  /\ has_queue = TRUE
  /\ q_head = 0
  /\ log_area = <<>>
  /\ poll = "polling"
  /\ runs = 1
  /\ completions = 0
  /\ stop_was_set = FALSE
  /\ stopping = FALSE
  /\ script = NoScript
  /\ event_budget = NoLimit

(* threading.Thread.is_alive(): the thread was started and run_measurement_task
   has not returned. *)
is_alive_mutant == FALSE
is_alive == pc \notin {"idle", "done"}

(* Lines 684-687: stop_test (the Stop button is enabled) tests that the worker
   thread is alive and logs the request; with no live worker the handler does
   nothing.  The handler runs on the Tk event loop, so not inside
   check_log_queue.  The worker runs on while the handler is between its test
   and line 688. *)
stop_test ==
  /\ stop_button = "normal"
  /\ poll \notin {"running", "empty"}
  /\ ~stopping
  /\ worker_thread = "thread" /\ is_alive
  /\ Charge(TRUE)
  /\ log_area' = Append(log_area, "Sending stop request...")
  /\ stopping' = TRUE
  /\ UNCHANGED <<config, stop_event, pc, conn, wire, log_queue, puts, now,
                 test_start_time, loopvars, samples, exported, history,
                 observed_at, form, start_button, stop_button, worker_thread,
                 has_queue, q_head, poll, runs, completions, stop_was_set,
                 script>>

(* Lines 688-689: stop_test sets the event, whether or not the worker is still
   alive, and disables the Stop button, so the event is set once per run. *)
stop_test_set ==
  /\ stopping
  /\ stopping' = FALSE
  /\ stop_event' = TRUE
  /\ stop_button' = "disabled"
  /\ stop_pc' = pc
  /\ stop_at' = Len(wire)
  /\ stop_samples' = Len(elapsed_times)
  /\ UNCHANGED <<config, pc, conn, wire, log_queue, puts, now, test_start_time,
                 loopvars, samples, exported, observed_at, finally_at,
                 form, start_button, worker_thread, has_queue, q_head, log_area,
                 poll, runs, completions, stop_was_set, script, event_budget>>

(* A statement of the worker puts `first` (no entry, or one entry) and is
   followed by the puts `later`, which the worker makes one at a time before
   its next statement: every log_queue.put is a step of its own, and the
   callbacks of the Tk event loop can run between two of them. *)
Puts(first, later) ==
  /\ log_queue' = log_queue \o first
  /\ puts' = later

(* One log_queue.put(...) of the puts that follow a statement. *)
Put ==
  /\ puts # <<>>
  /\ log_queue' = Append(log_queue, Head(puts))
  /\ puts' = Tail(puts)
  /\ UNCHANGED <<config, stop_event, pc, conn, wire, now, test_start_time,
                 loopvars, samples, exported, history, observed_at>>
  /\ UNCHANGED <<gui, script, event_budget>>

(* Lines 399-400: the first put of the run, before serial.Serial is called. *)
Connect ==
  /\ pc = "connect" /\ puts = <<>>
  /\ Puts(<<"Attempting to connect">>, <<>>)
  /\ pc' = "open_port"
  /\ UNCHANGED <<config, stop_event, conn, wire, now, test_start_time, loopvars,
                 samples, exported, history, observed_at>>
  /\ UNCHANGED <<gui, script, event_budget>>

(* Lines 401-411: serial.Serial(...) returns the open port or raises; after
   it the worker announces the start-delay wait. *)
OpenPort ==
  /\ pc = "open_port" /\ puts = <<>>
  /\ \E outcome \in {"ok", "SerialException", "ValueError"} :
       /\ Charge(outcome # "ok")
       /\ IF outcome = "ok"
          THEN /\ conn' = "open"
               /\ wire' = Append(wire, Op("open", "port", "ok"))
               /\ Puts(<<>>, <<"Waiting for start delay">>)
               /\ pc' = "start_delay_wait"
          ELSE /\ conn' = "none"
               /\ wire' = Append(wire, Op("open", "port", "raise"))
               /\ Puts(<<>>, <<>>)
               /\ pc' = Handler(outcome)
  /\ UNCHANGED <<config, stop_event, now, test_start_time, loopvars, samples,
                 exported, history, observed_at>>
  /\ UNCHANGED <<gui, script>>

(* Lines 412-414: stop_event.wait(timeout=start_delay). *)
StartDelayWait ==
  /\ pc = "start_delay_wait" /\ puts = <<>>
  /\ IF wait_result(stop_event)
     THEN /\ Puts(<<>>, <<"Stop requested during initial wait.">>)
          /\ pc' = Handler("InterruptedException")
          /\ observed_at' = Len(wire)
          /\ now' = now
     ELSE /\ now' = now + config.start_delay
          /\ pc' = "identify"
          /\ UNCHANGED <<log_queue, puts, observed_at>>
  /\ UNCHANGED <<config, stop_event, conn, wire, test_start_time, loopvars,
                 samples, exported, history>>
  /\ UNCHANGED <<gui, script, event_budget>>

(* Line 379: connection.write(query_str.encode()) of query_device, called
   at position `at`; when it returns, the worker is in readline at `reading`. *)
query_write(at, query, reading) ==
  /\ pc = at /\ puts = <<>>
  /\ \E ok \in BOOLEAN :
       /\ Charge(~ok)
       /\ IF ok
          THEN /\ wire' = Append(wire, Op("write", query, "ok"))
               /\ pc' = reading
          ELSE /\ wire' = Append(wire, Op("write", query, "raise"))
               /\ pc' = Handler("SerialException")
  /\ UNCHANGED <<config, stop_event, conn, log_queue, puts, now, test_start_time,
                 loopvars, samples, exported, history, observed_at>>
  /\ UNCHANGED <<gui, script>>

(* Line 380: connection.readline().decode().strip().  The result is
   <<wire', now', response, exc>>; exc is "none" when the call returned. *)
QueryResults(query, replies) ==
  { <<Append(wire, Op("readline", query, "raise")), now, EmptyLine, "SerialException">> }
  \cup
  { <<Append(wire, Op("readline", query, "undecodable")),
      now + ReplyTicks, EmptyLine, "UnicodeDecodeError">> }
  \cup
  { <<Append(wire, Op("readline", query, "timeout")), now + timeout, EmptyLine, "none">> }
  \cup
  { <<Append(wire, Op("readline", query, "line")), now + ReplyTicks, r, "none">> :
      r \in replies }

(* A readline that raised, timed out or returned no well-formed reply. *)
IsFault(q) == q[4] # "none" \/ q[3] \notin WellFormedReplies

(* Line 418: the write of query_device(conn, '*IDN?', log_queue). *)
Identify == query_write("identify", "*IDN?", "identify_reply")

(* Lines 418-422: the reply to *IDN? is logged and the start time recorded. *)
IdentifyReply ==
  /\ pc = "identify_reply" /\ puts = <<>>
  /\ \E q \in QueryResults("*IDN?", IdnReplies) :
       /\ Charge(IsFault(q))
       /\ wire' = q[1]
       /\ now' = q[2]
       /\ IF q[4] = "none"
          THEN /\ Puts(<<>>, <<"Device Identity">>)
               /\ test_start_time' = q[2]
               /\ pc' = "configure"
          ELSE /\ pc' = Handler(q[4])
               /\ UNCHANGED <<log_queue, puts, test_start_time>>
  /\ UNCHANGED <<config, stop_event, conn, loopvars, samples, exported,
                 history, observed_at>>
  /\ UNCHANGED <<gui, script>>

(* Lines 370-374: the log entry send_command puts after a successful write. *)
SentMsg(cmd) == CASE cmd = "CONF:SETPT 0" -> "Sent: CONF:SETPT 0"
                  [] cmd = "CURR 0" -> "Sent: CURR 0"
                  [] cmd = "VOLT <limit>" -> "Sent: VOLT <limit>"
                  [] cmd = "OUTP:START" -> "Sent: OUTP:START"
                  [] cmd = "CURR <target>" -> "Sent: CURR <target>"
                  [] cmd = "OUTP:STOP" -> "Sent: OUTP:STOP"
                  [] OTHER -> "Sent: ?"

(* Lines 425-437: one send_command of the configuration sequence; after the
   last one the worker logs and enters the stabilization wait. *)
Configure ==
  /\ pc = "configure" /\ puts = <<>>
  /\ \E ok \in BOOLEAN :
       /\ Charge(~ok)
       /\ IF ok
          THEN /\ wire' = Append(wire, Op("write", ConfigCommands[cfg_i], "ok"))
               /\ IF cfg_i < Len(ConfigCommands)
                  THEN /\ Puts(<<>>, <<SentMsg(ConfigCommands[cfg_i])>>)
                       /\ cfg_i' = cfg_i + 1
                       /\ pc' = "configure"
                  ELSE /\ Puts(<<>>,
                            <<SentMsg(ConfigCommands[cfg_i]), "Power Supply set", "------",
                              "Starting measurements", "Initial 20 second stabilization wait...">>)
                       /\ cfg_i' = cfg_i
                       /\ pc' = "stabilize_wait"
          ELSE /\ wire' = Append(wire, Op("write", ConfigCommands[cfg_i], "raise"))
               /\ pc' = Handler("SerialException")
               /\ UNCHANGED <<log_queue, puts, cfg_i>>
  /\ UNCHANGED <<config, stop_event, conn, now, test_start_time, i, elapsed_time,
                 voltage_response, current_response, samples, exported,
                 history, observed_at>>
  /\ UNCHANGED <<gui, script>>

(* Lines 438-440: stop_event.wait(timeout=20). *)
StabilizeWait ==
  /\ pc = "stabilize_wait" /\ puts = <<>>
  /\ IF wait_result(stop_event)
     THEN /\ Puts(<<>>, <<"Stop requested during stabilization.">>)
          /\ pc' = Handler("InterruptedException")
          /\ observed_at' = Len(wire)
          /\ now' = now
     ELSE /\ now' = now + StabilizationWait
          /\ pc' = "loop_top"
          /\ UNCHANGED <<log_queue, puts, observed_at>>
  /\ UNCHANGED <<config, stop_event, conn, wire, test_start_time, loopvars,
                 samples, exported, history>>
  /\ UNCHANGED <<gui, script, event_budget>>

(* Lines 442-452: the head of the sampling loop. *)
LoopTop ==
  /\ pc = "loop_top" /\ puts = <<>>
  /\ IF ~range_has_next(i, config.measurements)
     THEN /\ pc' = "export"
          /\ UNCHANGED <<log_queue, puts, elapsed_time, observed_at>>
     ELSE IF is_set(stop_event)
          THEN /\ Puts(<<>>, <<"Stop requested, halting measurement loop.">>)
               /\ observed_at' = Len(wire)
               /\ pc' = "export"
               /\ UNCHANGED elapsed_time
          ELSE /\ elapsed_time' = elapsed_time_seconds(now, test_start_time)
               /\ Puts(<<>>, <<"--- Measurement ---">>)
               /\ pc' = "query_volt"
               /\ UNCHANGED observed_at
  /\ UNCHANGED <<config, stop_event, conn, wire, now, test_start_time, cfg_i, i,
                 voltage_response, current_response, samples, exported, history>>
  /\ UNCHANGED <<gui, script, event_budget>>

(* Line 455: the write of query_device(conn, 'MEAS:VOLT?', log_queue). *)
QueryVoltage == query_write("query_volt", "MEAS:VOLT?", "volt_reply")

(* Line 455: the reply is assigned to voltage_response; when readline or
   decode raises, the assignment does not happen. *)
QueryVoltageReply ==
  /\ pc = "volt_reply" /\ puts = <<>>
  /\ \E q \in QueryResults("MEAS:VOLT?", VoltReplies) :
       /\ Charge(IsFault(q))
       /\ wire' = q[1]
       /\ now' = q[2]
       /\ voltage_response' = IF q[4] = "none" THEN q[3] ELSE voltage_response
       /\ pc' = IF q[4] = "none" THEN "query_curr" ELSE Handler(q[4])
  /\ UNCHANGED <<config, stop_event, conn, log_queue, puts, test_start_time, cfg_i, i,
                 elapsed_time, current_response, samples, exported,
                 history, observed_at>>
  /\ UNCHANGED <<gui, script>>

(* Line 456: the write of query_device(conn, 'MEAS:CURR?', log_queue). *)
QueryCurrent == query_write("query_curr", "MEAS:CURR?", "curr_reply")

(* Line 456: the reply is assigned to current_response; when readline or
   decode raises, the assignment does not happen. *)
QueryCurrentReply ==
  /\ pc = "curr_reply" /\ puts = <<>>
  /\ \E q \in QueryResults("MEAS:CURR?", CurrReplies) :
       /\ Charge(IsFault(q))
       /\ wire' = q[1]
       /\ now' = q[2]
       /\ current_response' = IF q[4] = "none" THEN q[3] ELSE current_response
       /\ pc' = IF q[4] = "none" THEN "parse" ELSE Handler(q[4])
  /\ UNCHANGED <<config, stop_event, conn, log_queue, puts, test_start_time, cfg_i, i,
                 elapsed_time, voltage_response, samples, exported,
                 history, observed_at>>
  /\ UNCHANGED <<gui, script>>

(* Lines 460-465: what voltages.append has received when float() raises
   ValueError: both float() calls come before the first append, so nothing. *)
appended_before_error_mutant(v, c) == IF float_ok(v) THEN <<float_value(v)>> ELSE <<>>
appended_before_error(v, c) == <<>>

(* Lines 458-475: parse both replies and store the Sample, or log the parse
   failure and continue; after a stored Sample, announce the interval wait
   unless this was the last iteration. *)
ParseAndStore ==
  /\ pc = "parse" /\ puts = <<>>
  /\ IF float_ok(voltage_response) /\ float_ok(current_response)
     THEN /\ elapsed_times' = Append(elapsed_times, elapsed_time_hours(elapsed_time))
          /\ voltages' = Append(voltages, float_value(voltage_response))
          /\ currents' = Append(currents, float_value(current_response))
          /\ IF needs_interval_wait(i, config.measurements)
             THEN /\ Puts(<<"LOGGED">>, <<"Waiting for interval">>)
                  /\ pc' = "interval_wait"
                  /\ i' = i
             ELSE /\ Puts(<<"LOGGED">>, <<>>)
                  /\ pc' = "loop_top"
                  /\ i' = i + 1
     ELSE /\ Puts(<<"ERROR: Could not parse responses">>, <<>>)
          /\ pc' = "loop_top"
          /\ i' = i + 1
          /\ voltages' = voltages \o appended_before_error(voltage_response, current_response)
          /\ UNCHANGED <<elapsed_times, currents>>
  /\ UNCHANGED <<config, stop_event, conn, wire, now, test_start_time, cfg_i,
                 elapsed_time, voltage_response, current_response, exported,
                 history, observed_at>>
  /\ UNCHANGED <<gui, script, event_budget>>

(* Lines 476-478: stop_event.wait(timeout=config['interval']). *)
IntervalWait ==
  /\ pc = "interval_wait" /\ puts = <<>>
  /\ IF wait_result(stop_event)
     THEN /\ Puts(<<>>, <<"Stop requested during interval.">>)
          /\ observed_at' = Len(wire)
          /\ pc' = "export"
          /\ UNCHANGED <<now, i>>
     ELSE /\ now' = now + config.interval
          /\ i' = i + 1
          /\ pc' = "loop_top"
          /\ UNCHANGED <<log_queue, puts, observed_at>>
  /\ UNCHANGED <<config, stop_event, conn, wire, test_start_time, cfg_i,
                 elapsed_time, voltage_response, current_response, samples,
                 exported, history>>
  /\ UNCHANGED <<gui, script, event_budget>>

(* Lines 485-490: the rows of the DataFrame. *)
Rows == [k \in 1..Len(elapsed_times) |-> <<elapsed_times[k], voltages[k], currents[k]>>]

(* Lines 480-484 and 493-494: after the loop, announce the export if there
   are Samples. *)
Export ==
  /\ pc = "export" /\ puts = <<>>
  /\ IF elapsed_times # <<>>
     THEN /\ Puts(<<"Data logging complete.">>, <<"Creating Excel file">>)
          /\ pc' = "to_excel"
     ELSE /\ Puts(<<"Data logging complete.">>, <<"No valid data collected for export.">>)
          /\ pc' = "finally"
  /\ UNCHANGED <<config, stop_event, conn, wire, now, test_start_time, loopvars,
                 samples, exported, history, observed_at>>
  /\ UNCHANGED <<gui, script, event_budget>>

(* Lines 485-492: df.to_excel writes the rows or raises. *)
ToExcel ==
  /\ pc = "to_excel" /\ puts = <<>>
  /\ \E ok \in BOOLEAN :
       /\ Charge(~ok)
       /\ IF ok
          THEN /\ exported' = Rows
               /\ Puts(<<>>, <<"Successfully saved">>)
               /\ pc' = "finally"
          ELSE /\ exported' = exported
               /\ Puts(<<>>, <<>>)
               /\ pc' = Handler("OSError")
  /\ UNCHANGED <<config, stop_event, conn, wire, now, test_start_time, loopvars,
                 samples, history, observed_at>>
  /\ UNCHANGED <<gui, script>>

(* Lines 496-497 *)
ExceptSerial ==
  /\ pc = "except_serial" /\ puts = <<>>
  /\ Puts(<<"FATAL ERROR: Could not communicate with serial port">>, <<>>)
  /\ pc' = "showerror"
  /\ UNCHANGED <<config, stop_event, conn, wire, now, test_start_time, loopvars,
                 samples, exported, history, observed_at>>
  /\ UNCHANGED <<gui, script, event_budget>>

(* Lines 499-500 *)
ExceptInterrupted ==
  /\ pc = "except_interrupted" /\ puts = <<>>
  /\ Puts(<<"Test was manually stopped.">>, <<>>)
  /\ pc' = "finally"
  /\ UNCHANGED <<config, stop_event, conn, wire, now, test_start_time, loopvars,
                 samples, exported, history, observed_at>>
  /\ UNCHANGED <<gui, script, event_budget>>

(* Lines 501-502 *)
ExceptException ==
  /\ pc = "except_exception" /\ puts = <<>>
  /\ Puts(<<"An unexpected error occurred">>, <<>>)
  /\ pc' = "showerror"
  /\ UNCHANGED <<config, stop_event, conn, wire, now, test_start_time, loopvars,
                 samples, exported, history, observed_at>>
  /\ UNCHANGED <<gui, script, event_budget>>

(* Lines 498 and 503: messagebox.showerror blocks the worker until the
   operator dismisses the dialog (or the call raises); control then passes to
   the finally block.  It is a step of the operator, not of the worker: the
   program does nothing to make it happen. *)
ShowError ==
  /\ pc = "showerror" /\ puts = <<>>
  /\ pc' = "finally"
  /\ UNCHANGED <<config, stop_event, conn, wire, log_queue, puts, now, test_start_time,
                 loopvars, samples, exported, history, observed_at>>
  /\ UNCHANGED <<gui, script, event_budget>>

(* Lines 504-507 *)
Finally ==
  /\ pc = "finally" /\ puts = <<>>
  /\ Puts(<<"------">>, <<>>)
  /\ finally_at' = Len(wire)
  /\ pc' = IF conn_is_open(conn) THEN "shutdown_curr0" ELSE "finish"
  /\ UNCHANGED <<config, stop_event, conn, wire, now, test_start_time, loopvars,
                 samples, exported, stop_pc, stop_at, stop_samples, observed_at>>
  /\ UNCHANGED <<gui, script, event_budget>>

(* Lines 508-509 and 512-513 *)
ShutdownSetCurrent ==
  /\ pc = "shutdown_curr0" /\ puts = <<>>
  /\ \E ok \in BOOLEAN :
       /\ Charge(~ok)
       /\ IF ok
          THEN /\ wire' = Append(wire, Op("write", ShutdownCommands[1], "ok"))
               /\ Puts(<<>>, <<SentMsg(ShutdownCommands[1])>>)
               /\ pc' = "shutdown_stop"
          ELSE /\ wire' = Append(wire, Op("write", ShutdownCommands[1], "raise"))
               /\ Puts(<<>>, <<"Error during shutdown">>)
               /\ pc' = after_shutdown_error
  /\ UNCHANGED <<config, stop_event, conn, now, test_start_time, loopvars,
                 samples, exported, history, observed_at>>
  /\ UNCHANGED <<gui, script>>

(* Lines 510-513 *)
ShutdownDisableOutput ==
  /\ pc = "shutdown_stop" /\ puts = <<>>
  /\ \E ok \in BOOLEAN :
       /\ Charge(~ok)
       /\ IF ok
          THEN /\ wire' = Append(wire, Op("write", ShutdownCommands[2], "ok"))
               /\ Puts(<<>>,
                    <<SentMsg(ShutdownCommands[2]), "DC Output safely stopped and current set to 0.">>)
               /\ pc' = "close"
          ELSE /\ wire' = Append(wire, Op("write", ShutdownCommands[2], "raise"))
               /\ Puts(<<>>, <<"Error during shutdown">>)
               /\ pc' = after_shutdown_error
  /\ UNCHANGED <<config, stop_event, conn, now, test_start_time, loopvars,
                 samples, exported, history, observed_at>>
  /\ UNCHANGED <<gui, script>>

(* Lines 514-515 *)
Close ==
  /\ pc = "close" /\ puts = <<>>
  /\ conn' = "closed"
  /\ wire' = Append(wire, Op("close", "port", "ok"))
  /\ Puts(<<>>, <<"Serial connection closed.">>)
  /\ pc' = "finish"
  /\ UNCHANGED <<config, stop_event, now, test_start_time, loopvars, samples,
                 exported, history, observed_at>>
  /\ UNCHANGED <<gui, script, event_budget>>

(* Lines 517-518 *)
Finish ==
  /\ pc = "finish" /\ puts = <<>>
  /\ Puts(<<Head(FinishMessages)>>, Tail(FinishMessages))
  /\ pc' = "exit"
  /\ UNCHANGED <<config, stop_event, conn, wire, now, test_start_time, loopvars,
                 samples, exported, history, observed_at>>
  /\ UNCHANGED <<gui, script, event_budget>>

(* Line 518 to the end of the thread: run_measurement_task returns and the
   thread is no longer alive. *)
ThreadExit ==
  /\ pc = "exit" /\ puts = <<>>
  /\ pc' = "done"
  /\ UNCHANGED <<config, stop_event, conn, wire, log_queue, puts, now, test_start_time,
                 loopvars, samples, exported, history, observed_at>>
  /\ UNCHANGED <<gui, script, event_budget>>

Worker ==
  \/ Put
  \/ Connect
  \/ OpenPort
  \/ StartDelayWait
  \/ Identify
  \/ IdentifyReply
  \/ Configure
  \/ StabilizeWait
  \/ LoopTop
  \/ QueryVoltage
  \/ QueryVoltageReply
  \/ QueryCurrent
  \/ QueryCurrentReply
  \/ ParseAndStore
  \/ IntervalWait
  \/ Export
  \/ ToExcel
  \/ ExceptSerial
  \/ ExceptInterrupted
  \/ ExceptException
  \/ Finally
  \/ ShutdownSetCurrent
  \/ ShutdownDisableOutput
  \/ Close
  \/ Finish
  \/ ThreadExit

Next ==
  \/ stop_test
  \/ stop_test_set
  \/ ShowError
  \/ Worker

Spec == Init /\ [][Next]_vars

(* The worker thread is scheduled as long as it can take a step, and a
   stop_test that has begun runs to its end.  Nothing is assumed of the
   operator: a press of Stop and the dismissal of an error dialog may never
   come. *)
LiveSpec == Init /\ [][Next]_vars /\ WF_vars(Worker) /\ WF_vars(stop_test_set)

(* ------------------------- Control Surface ----------------------------- *)
workervars == <<config, stop_event, pc, conn, wire, log_queue, puts, now, test_start_time,
                loopvars, samples, exported, history, observed_at>>

(* State after MagnaPowerApp.__init__ (lines 532-541): no worker, no queue,
   Start enabled, Stop disabled, the entries hold their defaults. *)
GuiIdle ==
  /\ config = ConfigOf(DefaultForm)
  /\ stop_event = FALSE
  /\ pc = "idle"
  /\ conn = "none"
  /\ wire = <<>>
  /\ log_queue = <<>>
  /\ puts = <<>>
  /\ now = 0
  /\ test_start_time = -1
  /\ cfg_i = 1
  /\ i = 0
  /\ elapsed_time = 0
  /\ voltage_response = EmptyLine
  /\ current_response = EmptyLine
  /\ elapsed_times = <<>>
  /\ voltages = <<>>
  /\ currents = <<>>
  /\ exported = <<>>
  /\ stop_pc = "none"
  /\ stop_at = -1
  /\ observed_at = -1
  /\ finally_at = -1
  /\ stop_samples = -1
  /\ form = DefaultForm
  /\ start_button = "normal"
  /\ stop_button = "disabled"
  /\ worker_thread = "none"
  /\ has_queue = FALSE
  /\ q_head = 0
  /\ log_area = <<>>
  /\ poll = "none"
  /\ runs = 0
  /\ completions = 0
  /\ stop_was_set = FALSE
  /\ stopping = FALSE

GuiInit == GuiIdle /\ script = NoScript /\ event_budget = MaxGuiEvents

(* Lines 637 and 682: self.root.after(100, self.check_log_queue) leaves one
   call of check_log_queue scheduled. *)
root_after == "polling"

(* Line 672: the flag after stop_event.clear() *)
clear_mutant(flag) == flag
clear(flag) == FALSE

(* Lines 641-682: start_test, for the texts f typed into the entries.  The
   log area is cleared; malformed input returns after the message box; else
   the controls go to the running state, a new queue is created, the stop
   event is cleared, a new worker is started and the polling is scheduled. *)
start_test ==
  /\ start_button = "normal"
  /\ ~stopping
  /\ \E f \in GuiForms :
       /\ form' = f
       /\ log_area' = <<>>
       /\ IF ~form_valid(f)
          THEN UNCHANGED <<workervars, start_button, stop_button, worker_thread,
                           has_queue, q_head, poll, runs, completions, stop_was_set,
                           stopping>>
          ELSE /\ UNCHANGED stopping
               /\ runs < MaxRuns
               /\ start_button' = "disabled"
               /\ stop_button' = "normal"
               /\ has_queue' = TRUE
               /\ log_queue' = <<>>
               /\ puts' = <<>>
               /\ q_head' = 0
               /\ stop_was_set' = is_set(stop_event)
               /\ stop_event' = clear(stop_event)
               /\ worker_thread' = "thread"
               /\ config' = ConfigOf(f)
               /\ pc' = "connect"
               /\ conn' = "none"
               /\ wire' = <<>>
               /\ now' = 0
               /\ test_start_time' = -1
               /\ cfg_i' = 1
               /\ i' = 0
               /\ elapsed_time' = 0
               /\ voltage_response' = EmptyLine
               /\ current_response' = EmptyLine
               /\ elapsed_times' = <<>>
               /\ voltages' = <<>>
               /\ currents' = <<>>
               /\ exported' = <<>>
               /\ stop_pc' = "none"
               /\ stop_at' = -1
               /\ observed_at' = -1
               /\ finally_at' = -1
               /\ stop_samples' = -1
               /\ poll' = root_after
               /\ runs' = runs + 1
               /\ completions' = 0
  /\ UNCHANGED <<script, event_budget>>

(* Lines 624-633: one turn of the while loop of check_log_queue, run by the
   Tk event loop: the first turn when the scheduled call starts, a further
   turn while the call is in its loop.  get_nowait takes the entry at the
   head of the queue: an entry other than the sentinel is shown and the loop
   goes on; the sentinel calls on_task_complete (lines 691-696) and returns;
   when the queue is empty, get_nowait raises queue.Empty.  The worker runs
   between two turns. *)
Pending == SubSeq(log_queue, q_head + 1, Len(log_queue))

check_log_queue ==
  /\ poll \in {"polling", "running"}
  /\ ~stopping
  /\ IF Pending = <<>>
     THEN /\ poll' = "empty"
          /\ UNCHANGED <<q_head, log_area, start_button, stop_button,
                         worker_thread, has_queue, completions>>
     ELSE /\ q_head' = q_head + 1
          /\ IF Head(Pending) = None
             THEN /\ log_area' = Append(log_area, "Task monitoring complete.")
                  /\ start_button' = "normal"
                  /\ stop_button' = "disabled"
                  /\ worker_thread' = "none"
                  /\ has_queue' = FALSE
                  /\ poll' = "none"
                  /\ completions' = completions + 1
             ELSE /\ log_area' = Append(log_area, Head(Pending))
                  /\ poll' = "running"
                  /\ UNCHANGED <<start_button, stop_button, worker_thread,
                                 has_queue, completions>>
  /\ UNCHANGED <<workervars, form, runs, stop_was_set, stopping, script, event_budget>>

(* Lines 635-639: the handler of queue.Empty: poll again in 100 ms while the
   worker thread is alive, else call on_task_complete (lines 691-696).  The
   worker can run between the get_nowait that raised and this test. *)
check_log_queue_empty ==
  /\ poll = "empty"
  /\ IF worker_thread = "thread" /\ is_alive
     THEN /\ poll' = root_after
          /\ UNCHANGED <<log_area, start_button, stop_button, worker_thread,
                         has_queue, completions>>
     ELSE /\ log_area' = Append(log_area, "Task monitoring complete.")
          /\ start_button' = "normal"
          /\ stop_button' = "disabled"
          /\ worker_thread' = "none"
          /\ has_queue' = FALSE
          /\ poll' = "none"
          /\ completions' = completions + 1
  /\ UNCHANGED <<workervars, form, q_head, runs, stop_was_set, stopping, script,
                 event_budget>>

GuiNext ==
  \/ start_test
  \/ stop_test
  \/ stop_test_set
  \/ check_log_queue
  \/ check_log_queue_empty
  \/ ShowError
  \/ Worker

GuiSpec == GuiInit /\ [][GuiNext]_vars

(* The worker thread is scheduled as long as it can take a step, and the Tk
   event loop runs a callback that is scheduled or has begun to its end: a
   scheduled check_log_queue (every turn of its loop and, on queue.Empty, its is_alive
   branch) and the rest of a stop_test.  Nothing is assumed of the operator:
   a press of Start or Stop and the dismissal of an error dialog may never
   come. *)
GuiLiveSpec ==
  /\ GuiInit /\ [][GuiNext]_vars
  /\ WF_vars(Worker)
  /\ WF_vars(check_log_queue \/ check_log_queue_empty \/ stop_test_set)

(* ----------------------- stand-alone scripts --------------------------- *)
(* The three scripts that precede the GUI program in the file: the plain
   script (lines 1-39), the Excel script (lines 41-201) and the plotting
   script (lines 203-353).  A script is the sequence of its statements that
   touch the connection or the stored samples; `at` is the index of the next
   statement. *)
ScriptVariants == {"plain", "excel", "plot"}

(* Lines 55 and 216 *)
TOTAL_MEASUREMENTS == 5

Stmt(k, a, n) == [kind |-> k, arg |-> a, i |-> n]

(* Lines 5-39: the plain script, a straight line with no try block. *)
PlainProgram ==
  << Stmt("open", "port", 0), Stmt("sleep", "start delay", 0),
     Stmt("write", "*IDN?", 0), Stmt("readline", "*IDN?", 0),
     Stmt("write", "CONF:SETPT 0", 0), Stmt("write", "CURR 0", 0),
     Stmt("write", "OUTP:START", 0), Stmt("write", "CURR <target>", 0),
     Stmt("sleep", "5 min", 0),
     Stmt("write", "MEAS:VOLT?", 0), Stmt("readline", "MEAS:VOLT?", 0),
     Stmt("sleep", "run time", 0),
     Stmt("write", "MEAS:VOLT?", 0), Stmt("readline", "MEAS:VOLT?", 0),
     Stmt("write", "OUTP:STOP", 0), Stmt("close", "port", 0) >>

(* Lines 92-120 and 250-275: connect, identify, configure, settle. *)
Prelude ==
  << Stmt("open", "port", 0), Stmt("sleep", "start delay", 0),
     Stmt("write", "*IDN?", 0), Stmt("readline", "*IDN?", 0),
     Stmt("write", "CONF:SETPT 0", 0), Stmt("write", "CURR 0", 0),
     Stmt("write", "VOLT <limit>", 0), Stmt("write", "OUTP:START", 0),
     Stmt("write", "CURR <target>", 0), Stmt("sleep", "stabilization", 0) >>

(* Lines 122-153 and 277-301: the body of iteration n of the for loop; the
   plotting script queries the voltage only. *)
Iteration(variant, n) ==
  << Stmt("write", "MEAS:VOLT?", n), Stmt("readline", "MEAS:VOLT?", n) >>
  \o (IF variant = "excel"
      THEN << Stmt("write", "MEAS:CURR?", n), Stmt("readline", "MEAS:CURR?", n) >>
      ELSE << >>)
  \o << Stmt("parse", "float", n) >>
  \o (IF needs_interval_wait(n, TOTAL_MEASUREMENTS)
      THEN << Stmt("interval_wait", "interval", n) >>
      ELSE << >>)

RECURSIVE Loop(_, _)
Loop(variant, n) ==
  IF range_has_next(n, TOTAL_MEASUREMENTS)
  THEN Iteration(variant, n) \o Loop(variant, n + 1)
  ELSE << >>

(* Lines 158-176 (df.to_excel) and 306-328 (plt.show). *)
Output(variant) == << Stmt("output", IF variant = "excel" THEN "to_excel" ELSE "plot", 0) >>

ScriptProgram(variant) ==
  IF variant = "plain" THEN PlainProgram
  ELSE Prelude \o Loop(variant, 0) \o Output(variant)

ScriptStart(variant) == [NoScript EXCEPT !.variant = variant, !.pc = "run", !.at = 1]

ScriptInit ==
  /\ GuiIdle
  /\ script \in { ScriptStart(v) : v \in ScriptVariants }
  /\ event_budget = NoLimit

Prog == ScriptProgram(script.variant)
Cur == Prog[script.at]
Running(kind) == script.pc = "run" /\ script.at <= Len(Prog) /\ Cur.kind = kind

(* Where control is once statement k is the next one: past the last
   statement the plain script ends, the other two enter their finally block. *)
PcAt(k) == IF k <= Len(Prog) THEN "run"
           ELSE IF script.variant = "plain" THEN "finished" ELSE "finally"

(* An exception ends the plain script with a traceback; in the other two it
   reaches the except clauses of lines 179-184 and 331-336. *)
ScriptRaise(exc) == IF script.variant = "plain" THEN "traceback" ELSE Handler(exc)

(* Lines 5, 92, 250: serial.Serial(...) *)
ScriptOpen ==
  /\ Running("open")
  /\ \E ok \in BOOLEAN :
       IF ok
       THEN script' = [script EXCEPT !.conn = "open",
                                     !.wire = Append(@, Op("open", "port", "ok")),
                                     !.at = @ + 1, !.pc = PcAt(script.at + 1)]
       ELSE script' = [script EXCEPT !.wire = Append(@, Op("open", "port", "raise")),
                                     !.pc = ScriptRaise("SerialException")]
  /\ UNCHANGED <<workervars, gui, event_budget>>

(* Lines 8, 25, 30, 95, 120, 253, 275: time.sleep *)
ScriptSleep ==
  /\ Running("sleep")
  /\ script' = [script EXCEPT !.at = @ + 1, !.pc = PcAt(script.at + 1)]
  /\ UNCHANGED <<workervars, gui, event_budget>>

(* conn.write of a command or of a query (lines 11-36, 71, 79, 230, 238). *)
ScriptWrite ==
  /\ Running("write")
  /\ \E ok \in BOOLEAN :
       IF ok
       THEN script' = [script EXCEPT !.wire = Append(@, Op("write", Cur.arg, "ok")),
                                     !.at = @ + 1, !.pc = PcAt(script.at + 1)]
       ELSE script' = [script EXCEPT !.wire = Append(@, Op("write", Cur.arg, "raise")),
                                     !.pc = ScriptRaise("SerialException")]
  /\ UNCHANGED <<workervars, gui, event_budget>>

(* conn.readline() (lines 13, 27, 33; with decode().strip() at lines 81 and
   240).  The plain script opens the port without a timeout and prints the
   bytes as they are; the other two time out with the empty line. *)
ReadlineOutcomes(variant) ==
  IF variant = "plain" THEN {"line", "raise"}
  ELSE {"line", "timeout", "undecodable", "raise"}
ReplyLines(query) == CASE query = "MEAS:VOLT?" -> VoltReplies
                       [] query = "MEAS:CURR?" -> CurrReplies
                       [] OTHER -> IdnReplies

Received(query, r) ==
  [script EXCEPT !.voltage_response = IF query = "MEAS:VOLT?" THEN r ELSE @,
                 !.current_response = IF query = "MEAS:CURR?" THEN r ELSE @,
                 !.at = @ + 1, !.pc = PcAt(script.at + 1)]

ScriptReadline ==
  /\ Running("readline")
  /\ \E outcome \in ReadlineOutcomes(script.variant) :
       CASE outcome = "line" ->
              \E r \in ReplyLines(Cur.arg) :
                script' = [Received(Cur.arg, r) EXCEPT
                             !.wire = Append(@, Op("readline", Cur.arg, "line"))]
         [] outcome = "timeout" ->
              script' = [Received(Cur.arg, EmptyLine) EXCEPT
                           !.wire = Append(@, Op("readline", Cur.arg, "timeout"))]
         [] outcome = "undecodable" ->
              script' = [script EXCEPT
                           !.wire = Append(@, Op("readline", Cur.arg, "undecodable")),
                           !.pc = ScriptRaise("UnicodeDecodeError")]
         [] OTHER ->
              script' = [script EXCEPT
                           !.wire = Append(@, Op("readline", Cur.arg, "raise")),
                           !.pc = ScriptRaise("SerialException")]
  /\ UNCHANGED <<workervars, gui, event_budget>>

(* The statement `continue` goes to: the one after the interval wait of this
   iteration, when it has one. *)
NextIteration ==
  IF script.at + 1 <= Len(Prog) /\ Prog[script.at + 1].kind = "interval_wait"
  THEN script.at + 2
  ELSE script.at + 1

(* Lines 135-148 and 284-296: float() of the responses; a sample is stored,
   or the except ValueError clause continues with the next iteration, past
   the interval wait. *)
ScriptParse ==
  /\ Running("parse")
  /\ IF float_ok(script.voltage_response)
        /\ (script.variant = "excel" => float_ok(script.current_response))
     THEN script' = [script EXCEPT !.stored = @ + 1,
                                   !.at = @ + 1, !.pc = PcAt(script.at + 1)]
     ELSE script' = [script EXCEPT !.at = NextIteration, !.pc = PcAt(NextIteration)]
  /\ UNCHANGED <<workervars, gui, event_budget>>

(* Lines 151-153 and 299-301: time.sleep(MEASUREMENT_INTERVAL_SECONDS) after
   every iteration but the last. *)
ScriptIntervalWait ==
  /\ Running("interval_wait")
  /\ script' = [script EXCEPT !.at = @ + 1, !.pc = PcAt(script.at + 1)]
  /\ UNCHANGED <<workervars, gui, event_budget>>

(* Lines 158-176 and 306-328: the export or the plot, when a sample was
   stored; either can raise. *)
ScriptOutput ==
  /\ Running("output")
  /\ IF script.stored > 0
     THEN \E ok \in BOOLEAN :
            IF ok
            THEN script' = [script EXCEPT !.at = @ + 1, !.pc = PcAt(script.at + 1)]
            ELSE script' = [script EXCEPT !.pc = ScriptRaise("OSError")]
     ELSE script' = [script EXCEPT !.at = @ + 1, !.pc = PcAt(script.at + 1)]
  /\ UNCHANGED <<workervars, gui, event_budget>>

(* Line 39: conn.close() of the plain script. *)
ScriptPlainClose ==
  /\ Running("close")
  /\ script' = [script EXCEPT !.conn = "closed",
                              !.wire = Append(@, Op("close", "port", "ok")),
                              !.at = @ + 1, !.pc = PcAt(script.at + 1)]
  /\ UNCHANGED <<workervars, gui, event_budget>>

(* Lines 179-184 and 331-336: the except clauses print and fall through to
   the finally block. *)
ScriptExcept ==
  /\ script.pc \in {"except_serial", "except_exception"}
  /\ script' = [script EXCEPT !.pc = "finally"]
  /\ UNCHANGED <<workervars, gui, event_budget>>

(* Lines 186-189 and 338-341: if conn and conn.is_open *)
ScriptFinally ==
  /\ script.pc = "finally"
  /\ script' = IF conn_is_open(script.conn)
               THEN [script EXCEPT !.pc = "shutdown", !.sd = 1]
               ELSE [script EXCEPT !.pc = "finished"]
  /\ UNCHANGED <<workervars, gui, event_budget>>

(* Lines 190-196 and 342-348: CURR 0 and OUTP:STOP in one try block. *)
ScriptShutdown ==
  /\ script.pc = "shutdown"
  /\ \E ok \in BOOLEAN :
       IF ok
       THEN script' = [script EXCEPT
                         !.wire = Append(@, Op("write", ShutdownCommands[script.sd], "ok")),
                         !.sd = @ + 1,
                         !.pc = IF script.sd < Len(ShutdownCommands)
                                THEN "shutdown" ELSE "close"]
       ELSE script' = [script EXCEPT
                         !.wire = Append(@, Op("write", ShutdownCommands[script.sd], "raise")),
                         !.pc = after_shutdown_error]
  /\ UNCHANGED <<workervars, gui, event_budget>>

(* Lines 199-201 and 351-353 *)
ScriptClose ==
  /\ script.pc = "close"
  /\ script' = [script EXCEPT !.conn = "closed",
                              !.wire = Append(@, Op("close", "port", "ok")),
                              !.pc = "finished"]
  /\ UNCHANGED <<workervars, gui, event_budget>>

ScriptNext ==
  \/ ScriptOpen
  \/ ScriptSleep
  \/ ScriptWrite
  \/ ScriptReadline
  \/ ScriptParse
  \/ ScriptIntervalWait
  \/ ScriptOutput
  \/ ScriptPlainClose
  \/ ScriptExcept
  \/ ScriptFinally
  \/ ScriptShutdown
  \/ ScriptClose

ScriptSpec == ScriptInit /\ [][ScriptNext]_vars

(* ------------------------- derived notions ----------------------------- *)
Count(s, x) == Cardinality({k \in DOMAIN s : s[k] = x})
InSeq(s, x) == \E k \in DOMAIN s : s[k] = x
IsStrictlyIncreasing(s) == \A j, k \in DOMAIN s : j < k => s[j] < s[k]
IsPrefix(s, t) == Len(s) <= Len(t) /\ \A k \in DOMAIN s : s[k] = t[k]

Opened == InSeq(wire, Op("open", "port", "ok"))
InFinally(k) == finally_at >= 0 /\ k > finally_at
BodyEnd == IF finally_at >= 0 THEN finally_at ELSE Len(wire)
IsConfigWrite(e) == e.op = "write" /\ e.arg \in {"CONF:SETPT 0", "CURR 0", "VOLT <limit>", "OUTP:START", "CURR <target>"}
ArgsOf(s) == [k \in DOMAIN s |-> s[k].arg]
ConfigWritten == ArgsOf(SelectSeq(SubSeq(wire, 1, BodyEnd), IsConfigWrite))
ShutdownAttempted(cmd) == \E k \in DOMAIN wire : InFinally(k) /\ wire[k].op = "write" /\ wire[k].arg = cmd
ShutdownFailed == \E k \in DOMAIN wire : InFinally(k) /\ wire[k].res = "raise"
TransportFailure == \E k \in DOMAIN wire : wire[k].res \in {"raise", "undecodable", "timeout"}
ParseFailures == Count(log_queue, "ERROR: Could not parse responses")
ExportFailed == InSeq(log_queue, "An unexpected error occurred") /\ ~TransportFailure
WaitPcs == {"start_delay_wait", "stabilize_wait", "interval_wait"}
IsMeasQuery(e) == e.op = "write" /\ e.arg \in MeasQueries

(* C1: the configuration commands written before the finally block are a
   prefix of CONF:SETPT 0, CURR 0, VOLT <limit>, OUTP:START, CURR <target>,
   and all five have been written once the run is past Configuring. *)
C1_ConfigOrder ==
  /\ IsPrefix(ConfigWritten,
              <<"CONF:SETPT 0", "CURR 0", "VOLT <limit>", "OUTP:START", "CURR <target>">>)
  /\ InSeq(log_queue, "Power Supply set") => Len(ConfigWritten) = 5

C1_Witness ==
  /\ pc = "done"
  /\ Len(ConfigWritten) = 5
  /\ ShutdownAttempted("CURR 0")

(* C2 (as claimed): at the end of every run, CURR 0 and OUTP:STOP were both
   attempted in the finally block if and only if the port was opened. *)
C2_Claim ==
  pc = "done" =>
    ((ShutdownAttempted("CURR 0") /\ ShutdownAttempted("OUTP:STOP")) <=> Opened)

(* C3: the close is the last transport operation, and when the port was
   opened the connection is closed before the sentinel is on the queue. *)
C3_CloseBeforeSentinel ==
  /\ \A k \in DOMAIN wire : wire[k].op = "close" => k = Len(wire)
  /\ (Opened /\ (InSeq(log_queue, None) \/ pc = "done")) =>
        (conn = "closed" /\ wire[Len(wire)].op = "close")

C3_Witness ==
  /\ pc = "done"
  /\ ShutdownFailed
  /\ conn = "closed"
  /\ log_queue[Len(log_queue)] = None

(* C4 (as claimed): the sentinel is put at most once and is then the last
   entry of the queue, and every run, whatever its outcome, eventually ends
   with exactly one sentinel on the queue. *)
C4_SentinelState ==
  /\ Count(log_queue, None) <= 1
  /\ InSeq(log_queue, None) => log_queue[Len(log_queue)] = None
  /\ pc = "done" => Count(log_queue, None) = 1

C4_Claim == []C4_SentinelState /\ <>(pc = "done" /\ Count(log_queue, None) = 1)

(* C5 (as claimed): when the stop event was set while the worker was blocked
   in one of its waits, no MEAS query follows, the shutdown sequence CURR 0,
   OUTP:STOP, close is carried out and the sentinel is emitted. *)
C5_Claim ==
  (stop_pc \in WaitPcs /\ pc = "done") =>
    /\ \A k \in DOMAIN wire : k > stop_at => ~IsMeasQuery(wire[k])
    /\ ArgsOf(SubSeq(wire, finally_at + 1, Len(wire))) = <<"CURR 0", "OUTP:STOP", "port">>
    /\ InSeq(log_queue, None)

(* C6 (as claimed): once the stop event is set, every command written
   afterwards is a shutdown command. *)
C6_Claim ==
  stop_at >= 0 =>
    \A k \in DOMAIN wire :
      (k > stop_at /\ wire[k].op = "write") =>
        (InFinally(k) /\ wire[k].arg \in {"CURR 0", "OUTP:STOP"})

(* C6 (amended): once the worker has observed the stop event (a wait returned
   true or the loop head found it set), every write that follows is a
   shutdown command and nothing is read; a stop set during a wait is
   observed by that wait. *)
C6_AfterObserved ==
  /\ observed_at >= 0 =>
       \A k \in DOMAIN wire :
         (k > observed_at /\ wire[k].op \in {"write", "readline"}) =>
           (wire[k].op = "write" /\ InFinally(k) /\ wire[k].arg \in {"CURR 0", "OUTP:STOP"})
  /\ stop_pc \in WaitPcs =>
       IF observed_at = -1 THEN pc = stop_pc /\ Len(wire) = stop_at
                           ELSE observed_at = stop_at

C6_Witness ==
  /\ pc = "done"
  /\ stop_pc = "configure"
  /\ observed_at > stop_at
  /\ ShutdownAttempted("OUTP:STOP")

(* C7 (as claimed): after a readline that timed out no further query is
   written. *)
C7_Claim ==
  \A k \in DOMAIN wire :
    (wire[k].op = "readline" /\ wire[k].res = "timeout") =>
      \A m \in DOMAIN wire : m > k => ~(wire[m].op = "write" /\ wire[m].arg \in Queries)

(* C8: a run with no transport failure, no parse failure and no cancellation
   ends with exactly config.measurements Samples; the elapsed times of the
   Samples are strictly increasing in append order. *)
CleanRun == ~stop_event /\ ~TransportFailure /\ ParseFailures = 0 /\ Opened

C8_ExactlyNSamples ==
  /\ IsStrictlyIncreasing(elapsed_times)
  /\ (pc = "done" /\ CleanRun) =>
        /\ Len(elapsed_times) = config.measurements
        /\ Len(voltages) = config.measurements
        /\ Len(currents) = config.measurements

C8_Witness ==
  /\ pc = "done"
  /\ CleanRun
  /\ Len(elapsed_times) = MaxMeasurements
  /\ config.interval = 0

(* C9: an iteration in which a reply does not parse stores no Sample, logs one
   parse-failure entry and goes on with the next iteration; an uncancelled
   run without transport failure ends with as many Samples as iterations
   whose replies both parsed. *)
IsNumber(s) == s \in {"5.012", "1.998"}

C9_ParseStep ==
  (pc = "parse" /\ pc' # "parse" /\ ~(IsNumber(voltage_response) /\ IsNumber(current_response))) =>
    /\ UNCHANGED samples
    /\ log_queue' = Append(log_queue, "ERROR: Could not parse responses")
    /\ pc' = "loop_top"
    /\ i' = i + 1

C9_ParseState ==
  (pc = "done" /\ ~stop_event /\ Opened
      /\ ~(\E k \in DOMAIN wire : wire[k].res \in {"raise", "undecodable"})) =>
    Len(elapsed_times) = config.measurements - ParseFailures

C9_ParseFailureSkips == [][C9_ParseStep]_vars /\ []C9_ParseState

C9_Witness ==
  /\ pc = "done"
  /\ ~stop_event
  /\ ~TransportFailure
  /\ config.measurements = MaxMeasurements
  /\ Len(elapsed_times) = MaxMeasurements - 1
  /\ ParseFailures = 1

(* C10 (as claimed): an uncancelled run of N iterations performs exactly N-1
   interval waits, one between every two consecutive iterations. *)
C10_Claim ==
  (pc = "done" /\ ~stop_event /\ Opened /\ config.measurements >= 1
      /\ ~(\E k \in DOMAIN wire : wire[k].res \in {"raise", "undecodable"})) =>
    /\ Count(log_queue, "Waiting for interval") = config.measurements - 1
    /\ \A j, k \in DOMAIN log_queue :
         (j < k /\ log_queue[j] = "--- Measurement ---" /\ log_queue[k] = "--- Measurement ---") =>
           \E w \in DOMAIN log_queue : j < w /\ w < k /\ log_queue[w] = "Waiting for interval"

(* C13 (as claimed): when opening the port fails, the open attempt is the
   only transport operation of the run, the except clause logs an error
   entry, and the run goes on to emit the sentinel. *)
OpenFailed == InSeq(wire, Op("open", "port", "raise"))
ErrorLogged ==
  \/ InSeq(log_queue, "FATAL ERROR: Could not communicate with serial port")
  \/ InSeq(log_queue, "An unexpected error occurred")

C13_State ==
  OpenFailed =>
    /\ Len(wire) = 1
    /\ conn = "none"
    /\ pc \notin {"except_serial", "except_exception"} => ErrorLogged

C13_Claim == []C13_State /\ (OpenFailed ~> InSeq(log_queue, None))

(* C14 (as claimed): when the stop event is set before or during the
   start-delay wait, no Sample is stored, nothing but shutdown commands is
   written, nothing is read, shutdown commands are attempted only if the
   port was opened, and the sentinel is eventually emitted. *)
StoppedAtStart == stop_pc \in {"connect", "open_port", "start_delay_wait"}

C14_State ==
  StoppedAtStart =>
    /\ elapsed_times = <<>>
    /\ \A k \in DOMAIN wire :
         wire[k].op \in {"write", "readline"} =>
           (wire[k].op = "write" /\ InFinally(k) /\ wire[k].arg \in {"CURR 0", "OUTP:STOP"})
    /\ (ShutdownAttempted("CURR 0") \/ ShutdownAttempted("OUTP:STOP")) => Opened

C14_Claim == []C14_State /\ (StoppedAtStart ~> InSeq(log_queue, None))

(* C15: after a write or read raised before the finally block, nothing more
   is done on the transport before the finally block, and what follows is
   CURR 0, then OUTP:STOP (each at most once, OUTP:STOP only after a CURR 0
   that succeeded), then close. *)
BodyRaise(k) ==
  /\ wire[k].op \in {"write", "readline"}
  /\ wire[k].res = "raise"
  /\ ~InFinally(k)

ShutdownTails ==
  LET c0(r) == Op("write", "CURR 0", r)
      st(r) == Op("write", "OUTP:STOP", r)
      cl == Op("close", "port", "ok")
  IN { <<>>, <<c0("ok")>>, <<c0("ok"), st("ok")>>, <<c0("ok"), st("ok"), cl>>,
       <<c0("ok"), st("raise")>>, <<c0("ok"), st("raise"), cl>>,
       <<c0("raise")>>, <<c0("raise"), cl>> }

C15_FatalGoesToShutdown ==
  \A k \in DOMAIN wire :
    BodyRaise(k) =>
      /\ SubSeq(wire, k + 1, Len(wire)) \in ShutdownTails
      /\ Len(wire) > k => finally_at = k
      /\ pc = "done" => wire[Len(wire)].op = "close"

C15_Witness ==
  /\ pc = "done"
  /\ \E k \in DOMAIN wire : BodyRaise(k) /\ wire[k].arg = "VOLT <limit>"
  /\ ShutdownAttempted("OUTP:STOP")

(* C18 (as claimed): when the export has been started, the shutdown sequence
   has been performed and the connection is closed. *)
ExportStarted == InSeq(log_queue, "Creating Excel file")

C18_Claim == ExportStarted => (ShutdownAttempted("CURR 0") /\ conn = "closed")

(* C18 (amended): the export runs after the sampling loop and before the
   finally block, with the connection open and the output enabled; a run
   that has ended after the export was started has, after the export,
   attempted CURR 0 in the finally block, attempted OUTP:STOP if and only if
   the CURR 0 write did not raise, closed the connection as its last
   transport operation and put the sentinel as its last log entry. *)
C18_ExportStep ==
  (ExportStarted' /\ ~ExportStarted) =>
    /\ finally_at = -1 /\ finally_at' = -1
    /\ conn = "open"
    /\ InSeq(wire, Op("write", "OUTP:START", "ok"))
    /\ ~(\E k \in DOMAIN wire : wire[k].arg = "OUTP:STOP")
    /\ pc = "to_excel" /\ pc' = "to_excel"
    /\ puts = <<"Creating Excel file">>
    /\ exported = <<>>

C18_ExportState ==
  (ExportStarted /\ pc = "done") =>
    /\ \E k \in DOMAIN wire :
         /\ InFinally(k)
         /\ wire[k].op = "write" /\ wire[k].arg = "CURR 0"
         /\ ShutdownAttempted("OUTP:STOP") <=> wire[k].res = "ok"
    /\ \A k \in DOMAIN wire : wire[k].arg = "OUTP:STOP" => InFinally(k)
    /\ conn = "closed"
    /\ wire[Len(wire)].op = "close"
    /\ log_queue[Len(log_queue)] = None

C18_WriteStep ==
  (exported' # exported /\ runs' = runs) =>
    /\ pc = "to_excel"
    /\ finally_at = -1 /\ finally_at' = -1
    /\ conn = "open" /\ conn' = "open"
    /\ ~(\E k \in DOMAIN wire : wire[k].arg = "OUTP:STOP")

C18_ExportBeforeShutdown ==
  [][C18_ExportStep]_vars /\ [][C18_WriteStep]_vars /\ []C18_ExportState

C18_Witness ==
  /\ pc = "done"
  /\ exported # <<>>
  /\ ShutdownAttempted("OUTP:STOP")
  /\ conn = "closed"
  /\ log_queue[Len(log_queue)] = None

(* C19: once the stop event is set no new iteration starts and at most the
   iteration in progress stores a Sample; a stop set between the two queries
   of an iteration, or while the first one waits for its reply, does not
   keep the second query from being written. *)
IterationPcs == {"query_volt", "volt_reply", "query_curr", "curr_reply", "parse"}

VoltQueriesAfterStop ==
  Cardinality({k \in DOMAIN wire : k > stop_at /\ wire[k].op = "write" /\ wire[k].arg = "MEAS:VOLT?"})

C19_StopInLoop ==
  stop_at >= 0 =>
    /\ Len(elapsed_times) <= stop_samples + 1
    /\ Len(elapsed_times) > stop_samples => stop_pc \in IterationPcs
    /\ VoltQueriesAfterStop <= (IF stop_pc = "query_volt" THEN 1 ELSE 0)
    /\ (stop_pc = "query_curr" /\ Len(wire) > stop_at) =>
          (wire[stop_at + 1].op = "write" /\ wire[stop_at + 1].arg = "MEAS:CURR?")
    /\ (stop_pc = "volt_reply" /\ Len(wire) > stop_at + 1
          /\ wire[stop_at + 1].res \in {"line", "timeout"}) =>
          (wire[stop_at + 2].op = "write" /\ wire[stop_at + 2].arg = "MEAS:CURR?")

C19_Witness ==
  /\ pc = "done"
  /\ stop_pc = "query_curr"
  /\ Len(elapsed_times) = stop_samples + 1
  /\ Len(elapsed_times) < config.measurements

(* C20 (as claimed): at the end of a run whose export did not itself fail,
   every stored Sample is a row of the export, in order. *)
ExportRaised == ExportStarted /\ ~InSeq(log_queue, "Successfully saved")

C20_Claim == (pc = "done" /\ ~ExportRaised) => exported = Rows

(* C11 (as claimed): the entries shown are the entries put, in order; the
   step in which the Control Surface declares the run complete has taken the
   sentinel from the queue and leaves every entry put before it on display. *)
IsWorkerEntry(m) == m \notin {"Sending stop request...", "Task monitoring complete."}
Displayed == SelectSeq(log_area, IsWorkerEntry)

C11_CompleteStep ==
  (completions' = completions + 1) =>
     /\ q_head' >= 1
     /\ q_head' <= Len(log_queue')
     /\ log_queue'[q_head'] = None
     /\ Displayed' = SubSeq(log_queue', 1, Len(log_queue') - 1)

C11_Claim == [](IsPrefix(Displayed, log_queue)) /\ [][C11_CompleteStep]_vars

(* C12 (as claimed): on every connection, of the three scripts and of the
   GUI worker, OUTP:START is written only after CURR 0 and a VOLT <limit>
   command were written on it. *)
Written(w, cmd, k) == \E j \in 1..(k - 1) : w[j] = Op("write", cmd, "ok")
OutputStartGuarded(w) ==
  \A k \in DOMAIN w :
    (w[k].op = "write" /\ w[k].arg = "OUTP:START") =>
       Written(w, "CURR 0", k) /\ Written(w, "VOLT <limit>", k)

C12_Claim == OutputStartGuarded(script.wire) /\ OutputStartGuarded(wire)

(* C16: the Start control is enabled, and a new worker is started, only when
   no worker was started yet or the previous worker has put its sentinel and
   no longer holds an open connection. *)
PreviousRunOver ==
  \/ pc = "idle"
  \/ pc \in {"exit", "done"} /\ InSeq(log_queue, None) /\ conn # "open"

C16_StartStep == (runs' = runs + 1) => (PreviousRunOver /\ start_button = "normal")

C16_OneRun == [](start_button = "normal" => PreviousRunOver) /\ [][C16_StartStep]_vars

C16_Witness ==
  /\ runs = 2
  /\ pc = "start_delay_wait"
  /\ conn = "open"
  /\ start_button = "disabled"

(* C17: after start_test was given a form with a field that is not a number
   or with an empty path, no worker and no queue exist, the controls are
   idle, and the call opened no connection and started nothing. *)
NumberTexts == {"0", "1", "2", "3", "4", "5", "6", "7", "8", "9", "19200", "9.0", "5.0", "2.5"}
IsWellFormed(f) ==
  /\ {f.baud, f.start_delay, f.volt, f.curr, f.interval, f.total} \subseteq NumberTexts
  /\ f.file # ""

C17_Idle ==
  ~IsWellFormed(form) =>
    /\ worker_thread = "none"
    /\ ~has_queue
    /\ start_button = "normal"
    /\ stop_button = "disabled"
    /\ conn # "open"
    /\ poll = "none"

C17_RejectStep ==
  (~IsWellFormed(form') /\ (form' # form \/ log_area' # log_area)) =>
    (wire' = wire /\ pc' = pc /\ runs' = runs /\ log_queue' = log_queue)

C17_Rejects == []C17_Idle /\ [][C17_RejectStep]_vars

C17_Witness ==
  /\ form.file = ""
  /\ runs = 1
  /\ log_area = <<>>
  /\ start_button = "normal"

(* C21: the three lists always have the same length; every step leaves all
   three as they are or appends exactly one element to each, so an iteration
   whose replies do not both parse appends nothing, and no element is ever
   removed or changed. *)
Grown(s, t) == Len(t) = Len(s) + 1 /\ IsPrefix(s, t)

C21_Step ==
  \/ UNCHANGED samples
  \/ /\ Grown(elapsed_times, elapsed_times')
     /\ Grown(voltages, voltages')
     /\ Grown(currents, currents')
     /\ pc = "parse"
     /\ IsNumber(voltage_response) /\ IsNumber(current_response)

C21_SameLength == Len(elapsed_times) = Len(voltages) /\ Len(voltages) = Len(currents)

C21_ListsGrowTogether == []C21_SameLength /\ [][C21_Step]_vars

C21_Witness ==
  /\ pc = "loop_top"
  /\ i = 2
  /\ voltage_response = "5.012"
  /\ current_response = "ERR"
  /\ Len(elapsed_times) = 1
  /\ Len(voltages) = 1
  /\ Len(currents) = 1
  /\ ParseFailures = 1

(* C22: the step that starts a worker leaves the stop event clear, whatever
   it was before; and whenever the stop event is set, it was set by a
   stop_test of the run in progress (or just ended), never by an earlier one. *)
C22_StartStep == (runs' = runs + 1) => (~stop_event' /\ stop_pc' = "none" /\ pc' = "connect")

C22_State == stop_event => (stop_pc # "none" /\ stop_button = "disabled")

C22_StopNotCarried == []C22_State /\ [][C22_StartStep]_vars

C22_Witness ==
  /\ runs = 2
  /\ stop_was_set
  /\ ~stop_event
  /\ pc = "identify"
  /\ log_queue = <<"Attempting to connect", "Waiting for start delay">>

(* C23 (as claimed): on_task_complete is called at most once per run; until
   it is called a check_log_queue stays scheduled or running; after it the
   controls are idle, worker_thread and log_queue are cleared and nothing is
   scheduled; and under fair scheduling of the worker and of the polling
   callback every run started reaches that state.  Start stays disabled
   until the run's completion, so the completion reached is the one of that
   run. *)
SurfaceIdle ==
  /\ start_button = "normal"
  /\ stop_button = "disabled"
  /\ worker_thread = "none"
  /\ ~has_queue
  /\ poll = "none"

C23_State ==
  /\ completions <= 1
  /\ completions = 1 => SurfaceIdle
  /\ (runs >= 1 /\ completions = 0) =>
        (poll # "none" /\ worker_thread = "thread" /\ has_queue /\ start_button = "disabled")

C23_CompleteStep == (completions' # completions) => (completions' = 1 \/ runs' = runs + 1)

C23_Claim ==
  /\ []C23_State
  /\ [][C23_CompleteStep]_vars
  /\ (runs >= 1 /\ completions = 0) ~> (completions = 1 /\ SurfaceIdle)
====
